---- MODULE Spec2Model ----
(***************************************************************************)
(* Model of the prediction ledger (src/database.py) and of the single      *)
(* worker scan scheduler (src/real_time_monitor.py) that drives the        *)
(* scoring engine (src/hybrid_predictor.py) against it.                    *)
(*                                                                         *)
(* Probabilities are integers in percent (0.65 is 65).  Time is a coarse   *)
(* integer clock.  A table is the bag of its rows without the rowid column  *)
(* (id INTEGER PRIMARY KEY AUTOINCREMENT), which no statement reads: two    *)
(* rows that agree on every other column are two copies in the bag.        *)
(***************************************************************************)
EXTENDS Integers, Sequences, FiniteSets, Bags, TLC

\* ------------------------------------------------------------------ bounds
NumFixtures == 2
MaxTime == 1
MaxResults == 1
MaxHistory == 2

\* --------------------------------------------------- the upstream feed
Fixtures == 1..NumFixtures
NoFixture == 0
\* the competitions of config['leagues'], in iteration order
Leagues == {1, 2}
LastLeague == Cardinality(Leagues)
\* the first competition lists the first two fixtures, the last one the others
CompOf(f) == IF f <= 2 THEN 1 ELSE LastLeague
Kickoff(f) == f
HomeTeam(f) == 2 * f - 1
AwayTeam(f) == 2 * f
\* the fixtures of one competition, as the feed lists them
MatchList(c) ==
    SelectSeq([i \in 1..NumFixtures |-> i], LAMBDA f : CompOf(f) = c)

\* what a fixture record of the feed can look like
MatchStatuses == {"SCHEDULED", "TIMED", "FINISHED"}
MatchShapes == {"ok", "no_utcDate", "no_teams"}
\* answers of the fixture-list request and of a team-history request
MatchesResponses == {"matches", "non200", "error", "null"}
HistoryResponses == {"matches", "empty", "non200", "error"}
\* what the feature builder and the model can produce for one fixture
ScoreOutcomes ==
    { [probability |-> 60, btts_prob |-> 50, expected_goals |-> 2,
       home_form |-> 4, away_form |-> 1],
      [probability |-> 65, btts_prob |-> 60, expected_goals |-> 3,
       home_form |-> 7, away_form |-> 3],
      [probability |-> 80, btts_prob |-> 70, expected_goals |-> 4,
       home_form |-> 12, away_form |-> 6] }
GoalPairs == { <<1, 1>>, <<3, 0>> }
\* the final scores recorded while the scheduler runs: it reads none of them
MonitoredScores == { <<2, 1>> }
MinProbabilities == {65, 80}
\* the window lengths get_accuracy_stats is asked for, in clock units
Windows == {0, 1}

VARIABLES
    predictions,    \* table predictions: bag of rows
    results,        \* table results: bag of rows
    now,            \* the wall clock
    config,         \* config.yaml: the acceptance threshold
    over25_model,   \* HybridPredictor.over25_model: "None" or "Model"
    running,        \* RealTimeMonitor.running
    pc,             \* where the monitor coroutine stands
    now_utc,        \* scan_upcoming_matches: now_utc of the running cycle
    ci,             \* the competition being scanned
    matches,        \* the fixtures of that competition not yet looked at
    cur,            \* the fixture being processed, or NoFixture
    home_history,   \* _predict_match: home_history ("unset","empty","nonempty")
    scored,         \* history: the fixtures the model has scored
    saved,          \* history: the fixtures save_prediction was called for
    failed,         \* history: fixtures whose processing failed in the running cycle
    signalled,      \* history: a shutdown signal was delivered
    event,          \* history: what the last step did
    histories,      \* extract_features: <<home_history, away_history>> given to it
    features_dict,  \* _predict_match: what extract_features gave
    over25_out,     \* _predict_match: what predict_over25 gave (over25_result)
    workers,        \* concurrent workers: where each stands, and with what
    healed          \* the upstream feed has stopped failing

\* what the last step did (kind) and to what (arg): a fixture, or the
\* arguments of a ledger call
\* the level of the log entries a step of this kind writes ("none": it
\* writes no entry)
LogOf(kind) ==
    CASE kind \in {"started", "scan_start", "next_league", "saved",
                   "scan_complete"} -> "info"        \* lines 57-59, 81, 93, 116, 128
      [] kind = "matches_failed" -> "warning"        \* line 141, or error at 144
      [] kind \in {"match_exception", "model_missing"} -> "error"    \* line 125
      [] kind = "loop_exception" -> "error"                          \* line 74
      [] OTHER -> "none"

Ev(kind, arg) == [kind |-> kind, arg |-> arg, log |-> LogOf(kind)]

vars == <<predictions, results, now, config, over25_model, running, pc, now_utc,
          ci, matches, cur, home_history, scored, saved, failed,
          signalled, event, histories, features_dict,
          over25_out, workers, healed>>

\* the variables of the feature extraction and of the scoring taken alone
\* and of the concurrent workers, which no step of the ledger callers or of
\* the single-worker scheduler touches
aloneVars == <<histories, features_dict, over25_out, workers, healed>>


\* ------------------------------------------------------------ the ledger
\* SELECT COUNT(*) FROM predictions WHERE fixture_id = ?
CountRows(fixture_id) ==
    BagCardinality([r \in {x \in BagToSet(predictions) :
                              x.fixture_id = fixture_id} |-> predictions[r]])

\* mutant: the existence test asks for more than one row
prediction_exists_gt1(fixture_id) == CountRows(fixture_id) > 1

prediction_exists(fixture_id) == CountRows(fixture_id) > 0

\* mutant: a plain INSERT into a table without the UNIQUE constraint
InsertPlain(table, row) == table (+) SetToBag({row})

\* INSERT OR REPLACE under UNIQUE(fixture_id): the conflicting rows are deleted,
\* then the new row is inserted
InsertOrReplace(table, row) ==
    [r \in {x \in BagToSet(table) : x.fixture_id # row.fixture_id} |-> table[r]]
        (+) SetToBag({row})

\* the row save_prediction writes: status is not among the inserted columns,
\* so it takes the column default
NewRow(prediction) ==
    [fixture_id |-> prediction.fixture_id,
     predicted_at |-> now,
     home_team |-> prediction.home_team,
     away_team |-> prediction.away_team,
     league |-> prediction.league,
     kickoff_utc |-> prediction.kickoff_utc,
     over25_prob |-> prediction.over25_prob,
     over25_confidence |-> prediction.over25_confidence,
     btts_prob |-> prediction.btts_prob,
     expected_goals |-> prediction.expected_goals,
     home_form |-> prediction.home_form,
     away_form |-> prediction.away_form,
     status |-> "PENDING"]

save_prediction(prediction) ==
    /\ predictions' = InsertOrReplace(predictions, NewRow(prediction))
    /\ results' = results

\* mutant: a total of exactly 2 counts as over the threshold
over25_actual_ge(home_goals, away_goals) ==
    IF home_goals + away_goals >= 2 THEN 1 ELSE 0

over25_actual(home_goals, away_goals) ==
    IF home_goals + away_goals > 2 THEN 1 ELSE 0

btts_actual(home_goals, away_goals) ==
    IF home_goals > 0 /\ away_goals > 0 THEN 1 ELSE 0

\* the results row carries no recorded_at: the column is written with
\* datetime.now() and no statement of the repository reads it
save_result(fixture_id, home_goals, away_goals) ==
    /\ results' = results (+) SetToBag({
            [fixture_id |-> fixture_id,
             home_goals |-> home_goals,
             away_goals |-> away_goals,
             over25_actual |-> over25_actual(home_goals, away_goals),
             btts_actual |-> btts_actual(home_goals, away_goals)]})
    /\ predictions' = BagOfAll(
            LAMBDA r : IF r.fixture_id = fixture_id
                       THEN [r EXCEPT !.status = "FINISHED"]
                       ELSE r,
            predictions)

\* the rows of the JOIN of lines 147-149: a pair for every predictions row
\* written within the window and every results row of the same fixture_id.
\* predicted_at and the window bound are compared as text, which orders them
\* by calendar day; the clock of the model counts these days.
JoinRows(days) ==
    {x \in BagToSet(predictions) \X BagToSet(results) :
        /\ x[1].fixture_id = x[2].fixture_id
        /\ x[1].predicted_at >= now - days}

\* COUNT(*) and SUM(CASE WHEN ... THEN 1 ELSE 0 END) over the joined rows S
CountJoin(S) ==
    BagCardinality([x \in S |-> predictions[x[1]] * results[x[2]]])

\* lines 143-144
correct_over25(x) ==
    \/ x[2].over25_actual = 1 /\ x[1].over25_prob >= 65
    \/ x[2].over25_actual = 0 /\ x[1].over25_prob < 65

\* lines 145-146
correct_btts(x) ==
    \/ x[2].btts_actual = 1 /\ x[1].btts_prob >= 60
    \/ x[2].btts_actual = 0 /\ x[1].btts_prob < 60

\* a quotient n / d is the pair <<n, d>>; 0.0 is <<0, 1>>
get_accuracy_stats(days) ==
    LET row0 == CountJoin(JoinRows(days))
        row1 == CountJoin({x \in JoinRows(days) : correct_over25(x)})
        row2 == CountJoin({x \in JoinRows(days) : correct_btts(x)})
    IN IF row0 = 0
       THEN [accuracy_over25 |-> <<0, 1>>, accuracy_btts |-> <<0, 1>>,
             total |-> 0]
       ELSE [accuracy_over25 |-> <<row1, row0>>,
             accuracy_btts |-> <<row2, row0>>,
             total |-> row0]

\* ------------------------------------------------------ the scoring engine
\* HybridPredictor.load: a missing artifact leaves over25_model at None
load(artifact_present) == IF artifact_present THEN "Model" ELSE "None"

\* the probabilities predict_proba can give
Probabilities == 0..100
NoResult == [probability |-> -1]

\* mutant: the High band starts above 0.75
Confidence_gt(proba) ==
    IF proba > 75 THEN "High" ELSE IF proba >= 65 THEN "Medium" ELSE "Low"

Confidence(proba) ==
    IF proba >= 75 THEN "High" ELSE IF proba >= 65 THEN "Medium" ELSE "Low"

Max(a, b) == IF a >= b THEN a ELSE b
Min(a, b) == IF a <= b THEN a ELSE b

\* predict_over25 on a loaded model whose predict_proba gives proba
predict_over25(proba) ==
    [probability |-> proba,
     confidence |-> Confidence(proba),
     lower_bound |-> Max(0, proba - 8),
     upper_bound |-> Min(100, proba + 8)]

\* -------------------------------------------------- the feature extraction
\* A history record is [home, away, hg, ag]: the names of the two teams and
\* score.fullTime.home / .away, where Absent says that the key is not in the
\* record and Null that it is there with the value null (None).
Absent == -1
Null == -2
\* the teams of the fixture (1 at home, 2 away) and a third team
Pairings == { <<1, 2>>, <<3, 1>>, <<2, 3>> }
FullTimes == { <<2, 1>>, <<0, 0>>, <<Null, Null>>, <<Absent, Absent>>,
               <<0, Null>> }
HistoryMatches ==
    {[home |-> t[1], away |-> t[2], hg |-> g[1], ag |-> g[2]] :
        t \in Pairings, g \in FullTimes}
NoFeatures == [status |-> "none"]

\* d.get(key): None for a key that is not there
get(v) == IF v = Absent THEN Null ELSE v
\* d.get(key, 0): 0 for a key that is not there, None for a null value
get0(v) == IF v = Absent THEN 0 ELSE v

\* matches[a:b]
Slice(ms, a, b) ==
    SubSeq(ms, a + 1, IF Len(ms) < b THEN Len(ms) ELSE b)

RECURSIVE SumSeq(_)
SumSeq(q) == IF q = << >> THEN 0 ELSE Head(q) + SumSeq(Tail(q))

RECURSIVE GCD(_, _)
GCD(a, b) == IF b = 0 THEN a ELSE GCD(b, a % b)

\* the number n / d, d > 0, n >= 0, in lowest terms
Quotient(n, d) == <<n \div GCD(n, d), d \div GCD(n, d)>>

\* np.mean(values) if values else default
MeanOr(values, default) ==
    IF values = << >> THEN default
    ELSE Quotient(SumSeq(values), Len(values))

Count(ms, Test(_)) == Len(SelectSeq(ms, Test))

\* the values a loop appends: Pick(m) for every match, None left out
Appended(ms, Pick(_)) ==
    SelectSeq([i \in 1..Len(ms) |-> Pick(ms[i])],
              LAMBDA g : g # Null)

\* lines 99-110
goals_avg(ms, team_name) ==
    MeanOr(Appended(ms,
                    LAMBDA m : IF m.home = team_name THEN get(m.hg)
                               ELSE IF m.away = team_name THEN get(m.ag)
                               ELSE Null),
           <<0, 1>>)

\* lines 112-123
goals_conceded_avg(ms, team_name) ==
    MeanOr(Appended(ms,
                    LAMBDA m : IF m.home = team_name THEN get(m.ag)
                               ELSE IF m.away = team_name THEN get(m.hg)
                               ELSE Null),
           <<0, 1>>)

\* lines 125-146
points_form(ms, team_name) ==
    SumSeq([i \in 1..Len(ms) |->
        LET m == ms[i]
            hg == get(m.hg)
            ag == get(m.ag)
        IN IF hg = Null \/ ag = Null THEN 0
           ELSE IF m.home = team_name
                THEN (IF hg > ag THEN 3 ELSE IF hg = ag THEN 1 ELSE 0)
           ELSE IF m.away = team_name
                THEN (IF ag > hg THEN 3 ELSE IF ag = hg THEN 1 ELSE 0)
           ELSE 0])

\* lines 148-163: sum(scored) - sum(conceded), 0 when nothing was scored
goal_difference(ms, team_name) ==
    LET played == SelectSeq(ms,
                    LAMBDA m : /\ m.home = team_name \/ m.away = team_name
                               /\ get(m.hg) # Null /\ get(m.ag) # Null)
    IN SumSeq([i \in 1..Len(played) |->
                 IF played[i].home = team_name
                 THEN played[i].hg - played[i].ag
                 ELSE played[i].ag - played[i].hg])

\* lines 166-168 and 179-181
HeadToHead(home_team, away_team, all_matches) ==
    SelectSeq(all_matches,
              LAMBDA m : \/ m.home = home_team /\ m.away = away_team
                         \/ m.home = away_team /\ m.away = home_team)

\* lines 165-176
h2h_goals_avg(home_team, away_team, all_matches) ==
    MeanOr(Appended(HeadToHead(home_team, away_team, all_matches),
                    LAMBDA m : IF get(m.hg) # Null /\ get(m.ag) # Null
                               THEN m.hg + m.ag ELSE Null),
           <<275, 100>>)

\* hg > 0 and ag > 0 of lines 187 and 205: None > 0 is a TypeError, and ag
\* is not looked at when hg > 0 is false
BothScoreRaises(m) ==
    \/ get0(m.hg) = Null
    \/ get0(m.hg) > 0 /\ get0(m.ag) = Null
BothScore(m) == get0(m.hg) > 0 /\ get0(m.ag) > 0

\* lines 183-189 and 200-207: the rate over matches, default when empty
btts_rate(ms, default) ==
    IF ms = << >> THEN default
    ELSE Quotient(Count(ms, BothScore), Len(ms))
btts_rate_raises(ms) ==
    \E i \in 1..Len(ms) : BothScoreRaises(ms[i])

\* lines 191-198: hg + ag with a None is a TypeError
over_rate_raises(ms) ==
    \E i \in 1..Len(ms) :
        get0(ms[i].hg) = Null \/ get0(ms[i].ag) = Null
over_rate(ms) ==
    IF ms = << >> THEN <<0, 1>>
    ELSE Quotient(Count(ms, LAMBDA m : get0(m.hg) + get0(m.ag) > 2),
                  Len(ms))

\* lines 209-223
win_rate(ms, team_name) ==
    IF ms = << >> THEN <<0, 1>>
    ELSE Quotient(Count(ms,
                    LAMBDA m : /\ get(m.hg) # Null /\ get(m.ag) # Null
                               /\ \/ m.home = team_name /\ m.hg > m.ag
                                  \/ m.home # team_name /\ m.ag > m.hg),
                  Len(ms))

\* lines 225-236: None == 0 is false
clean_sheet_rate(ms, team_name) ==
    IF ms = << >> THEN <<0, 1>>
    ELSE Quotient(Count(ms,
                    LAMBDA m : \/ m.home = team_name /\ get0(m.ag) = 0
                               \/ m.home # team_name /\ get0(m.hg) = 0),
                  Len(ms))

\* extract_features: the aggregates over the histories.  The other features
\* are constants or sums, differences, products and quotients by a non-zero
\* league average of these, and the Poisson tail of two of them.
extract_features(home_team, away_team, home_hist, away_hist) ==
    LET home10 == Slice(home_hist, 0, 10)
        away10 == Slice(away_hist, 0, 10)
        h2h == HeadToHead(home_team, away_team, home_hist \o away_hist)
    IN IF \/ btts_rate_raises(h2h)
          \/ over_rate_raises(home10) \/ over_rate_raises(away10)
          \/ btts_rate_raises(home10) \/ btts_rate_raises(away10)
       THEN [status |-> "raised"]
       ELSE [status |-> "ok",
             home_goals_avg_5 |-> goals_avg(Slice(home_hist, 0, 5), home_team),
             away_goals_avg_5 |-> goals_avg(Slice(away_hist, 0, 5), away_team),
             home_goals_avg_10 |-> goals_avg(home10, home_team),
             away_goals_avg_10 |-> goals_avg(away10, away_team),
             home_points_form_3 |->
                 points_form(Slice(home_hist, 0, 3), home_team),
             away_points_form_3 |->
                 points_form(Slice(away_hist, 0, 3), away_team),
             home_points_form_5 |->
                 points_form(Slice(home_hist, 0, 5), home_team),
             home_conceded_avg_10 |-> goals_conceded_avg(home10, home_team),
             away_conceded_avg_10 |-> goals_conceded_avg(away10, away_team),
             home_goals_avg_prev |->
                 goals_avg(Slice(home_hist, 5, 10), home_team),
             away_goals_avg_prev |->
                 goals_avg(Slice(away_hist, 5, 10), away_team),
             h2h_goals_avg |->
                 h2h_goals_avg(home_team, away_team, home_hist \o away_hist),
             h2h_btts_rate |-> btts_rate(h2h, <<1, 2>>),
             home_goal_diff |-> goal_difference(home10, home_team),
             away_goal_diff |-> goal_difference(away10, away_team),
             home_wins_pct |-> win_rate(home10, home_team),
             away_wins_pct |-> win_rate(away10, away_team),
             home_over25_rate |-> over_rate(home10),
             away_over25_rate |-> over_rate(away10),
             home_btts_rate |-> btts_rate(home10, <<0, 1>>),
             away_btts_rate |-> btts_rate(away10, <<0, 1>>),
             home_clean_sheet_rate |-> clean_sheet_rate(home10, home_team),
             away_clean_sheet_rate |-> clean_sheet_rate(away10, away_team)]

\* ---------------------------------------------------------- the scheduler
\* two monitors run against one ledger file
Workers == {1, 2}
NoPrediction == [fixture_id |-> 0]
IdleWorker == [pc |-> "idle", fixture |-> 0, prediction |-> NoPrediction]

\* the positions at which the coroutine is suspended in an await
AwaitStates == {"FetchMatches", "AwaitHome", "AwaitAway", "RateLimit",
                "Sleeping", "ErrorBackoff"}
\* the positions inside scan_upcoming_matches
ScanningStates == {"FetchMatches", "NextMatch", "AwaitHome", "AwaitAway",
                   "RateLimit"}

\* _fetch_team_history: the list of a 200 answer; [] for a non-200 answer
\* and for any exception (timeout included)
fetch_team_history(resp) == IF resp = "matches" THEN "nonempty" ELSE "empty"

HistoryFailure(resp) == resp \in {"non200", "error"}

\* mutant: the acceptance threshold is not applied
threshold_ignored(probability) == FALSE

\* _predict_match, lines 204-205: the acceptance threshold
below_threshold(probability) == probability < config.over25_min_probability

\* _predict_match, lines 207-219: the prediction handed to the ledger
PredictionOf(f, league, o, r) ==
    [fixture_id |-> f,
     home_team |-> HomeTeam(f),
     away_team |-> AwayTeam(f),
     league |-> league,
     kickoff_utc |-> Kickoff(f),
     over25_prob |-> r.probability,
     over25_confidence |-> r.confidence,
     btts_prob |-> o.btts_prob,
     expected_goals |-> o.expected_goals,
     home_form |-> o.home_form,
     away_form |-> o.away_form]

MarkFailed(f) ==
    [failed EXCEPT ![f] = IF prediction_exists(f) THEN "had" ELSE "fresh"]

\* mutant: the exception leaves scan_upcoming_matches and reaches the loop
match_exception_escapes == "ErrorBackoff"

\* where an exception raised while a fixture is processed ends up:
\* except Exception at lines 124-126 logs it and goes on with the next fixture
match_exception_target == "NextMatch"

\* lines 124-126, for an exception raised while fixture f is processed
catch_match_exception(f, rest) ==
    /\ pc' = match_exception_target
    /\ matches' = rest
    /\ cur' = NoFixture
    /\ home_history' = "unset"
    /\ failed' = MarkFailed(f)
    /\ event' = Ev("match_exception", f)
    /\ UNCHANGED <<predictions, results, now, config, over25_model, running,
                   now_utc, ci, scored, saved, signalled>>
    /\ UNCHANGED aloneVars

\* mutant: the exception ends the loop
loop_exception_exits == "Terminated"

\* where an exception that leaves scan_upcoming_matches or the inter-cycle
\* sleep ends up: except Exception at lines 73-75 logs it and backs off
loop_exception_target == "ErrorBackoff"

\* lines 73-75
catch_loop_exception ==
    /\ pc' = loop_exception_target
    /\ matches' = <<>>
    /\ cur' = NoFixture
    /\ home_history' = "unset"
    /\ now_utc' = 0    \* the frame of scan_upcoming_matches is gone
    /\ ci' = 1
    /\ event' = Ev("loop_exception", NoFixture)
    /\ UNCHANGED <<predictions, results, now, config, over25_model, running,
                   scored, saved, failed, signalled>>
    /\ UNCHANGED aloneVars

\* main: asyncio.run(monitor.monitor_loop()), lines 57-59
MonitorStart ==
    /\ pc = "Idle"
    /\ pc' = "LoopTest"
    /\ event' = Ev("started", NoFixture)
    /\ UNCHANGED <<predictions, results, now, config, over25_model, running,
                   now_utc, ci, matches, cur, home_history, scored,
                   saved, failed, signalled>>
    /\ UNCHANGED aloneVars

\* line 61: while self.running; then lines 81-88 of a new scan cycle
LoopTest ==
    /\ pc = "LoopTest"
    /\ IF running
       THEN /\ pc' = "FetchMatches"
            /\ now_utc' = now
            /\ ci' = 1
            /\ matches' = <<>>
            /\ failed' = [f \in Fixtures |-> "no"]
            /\ event' = Ev("scan_start", NoFixture)
       ELSE /\ pc' = "Terminated"
            /\ event' = Ev("loop_exit", NoFixture)
            /\ UNCHANGED <<now_utc, ci, matches, failed>>
    /\ UNCHANGED <<predictions, results, now, config, over25_model, running,
                   cur, home_history, scored, saved, signalled>>
    /\ UNCHANGED aloneVars

\* line 95 and _fetch_matches: the fixture list of competition ci arrives
FetchMatches ==
    /\ pc = "FetchMatches"
    /\ \E resp \in MatchesResponses :
          IF resp = "null"
          THEN \* data.get('matches', []) is None: line 97 raises TypeError
               catch_loop_exception
          ELSE /\ matches' = IF resp = "matches" THEN MatchList(ci) ELSE <<>>
               /\ pc' = "NextMatch"
               /\ event' = Ev(IF resp = "matches" THEN "matches_fetched"
                              ELSE "matches_failed", NoFixture)
               /\ UNCHANGED <<predictions, results, now, config, over25_model,
                              running, now_utc, ci, cur, home_history,
                              scored, saved, failed, signalled, aloneVars>>

\* lines 97-112 and 165-169: the next fixture of the list, up to the first await
NextMatch ==
    /\ pc = "NextMatch"
    /\ matches # <<>>
    /\ LET f == Head(matches)
           rest == Tail(matches)
           Skip(kind) ==
               /\ matches' = rest
               /\ event' = Ev(kind, f)
               /\ UNCHANGED <<predictions, results, now, config, over25_model,
                              running, pc, now_utc, ci, cur, home_history,
                              scored, saved, failed, signalled, aloneVars>>
       IN \E status \in MatchStatuses, shape \in MatchShapes :
             IF status \notin {"SCHEDULED", "TIMED"} THEN Skip("skip_status")
             ELSE IF shape = "no_utcDate" THEN catch_match_exception(f, rest)
             ELSE IF Kickoff(f) <= now_utc THEN Skip("skip_past")
             ELSE IF prediction_exists(f) THEN Skip("skip_existing")
             ELSE IF shape = "no_teams" THEN catch_match_exception(f, rest)
             ELSE /\ pc' = "AwaitHome"
                  /\ matches' = rest
                  /\ cur' = f
                  /\ home_history' = "unset"
                  /\ event' = Ev("process", [fixture |-> f, status |-> status])
                  /\ UNCHANGED <<predictions, results, now, config,
                                 over25_model, running, now_utc, ci,
                                 scored, saved, failed, signalled, aloneVars>>

\* mutant: the loop starts the next cycle without sleeping
scan_complete_loops == "LoopTest"

\* where the loop stands after a scan that returned: lines 66-68, awaiting
\* asyncio.sleep(interval)
scan_complete_target == "Sleeping"

\* lines 89-97 and 128, 66-68: the list is exhausted; the next competition,
\* or the end of the scan and the inter-cycle sleep
NextLeague ==
    /\ pc = "NextMatch"
    /\ matches = <<>>
    /\ IF ci < LastLeague
       THEN /\ ci' = ci + 1
            /\ now_utc' = now_utc
            /\ pc' = "FetchMatches"
            /\ event' = Ev("next_league", NoFixture)
       ELSE \* scan_upcoming_matches returns and its locals are gone
            /\ ci' = 1
            /\ now_utc' = 0
            /\ pc' = scan_complete_target
            /\ event' = Ev("scan_complete", NoFixture)
    /\ UNCHANGED <<predictions, results, now, config, over25_model, running,
                   matches, cur, home_history, scored, saved,
                   failed, signalled>>
    /\ UNCHANGED aloneVars

\* line 172: the home team's history arrives
FetchHome ==
    /\ pc = "AwaitHome"
    /\ \E resp \in HistoryResponses :
          /\ home_history' = fetch_team_history(resp)
          /\ failed' = IF HistoryFailure(resp) THEN MarkFailed(cur) ELSE failed
          /\ event' = Ev(IF HistoryFailure(resp) THEN "history_failed"
                         ELSE "history_fetched", cur)
    /\ pc' = "AwaitAway"
    /\ UNCHANGED <<predictions, results, now, config, over25_model, running,
                   now_utc, ci, matches, cur, scored, saved, signalled>>
    /\ UNCHANGED aloneVars

\* lines 173-219 and 114-118: the away team's history arrives; the fixture is
\* scored and, if accepted, persisted, up to the rate-limit sleep of line 122
FetchAway ==
    /\ pc = "AwaitAway"
    /\ \E resp \in HistoryResponses, features \in {"features", "raise"},
          o \in ScoreOutcomes :
          LET away_history == fetch_team_history(resp)
              over25_result == predict_over25(o.probability)
              failedNow == IF HistoryFailure(resp) THEN MarkFailed(cur)
                           ELSE failed
          IN IF home_history = "empty" \/ away_history = "empty"
             THEN \* lines 175-176: return None; line 114 skips the save
                  /\ pc' = "RateLimit"
                  /\ failed' = failedNow
                  /\ event' = Ev(IF HistoryFailure(resp) THEN "history_failed"
                                 ELSE "no_history", cur)
                  /\ UNCHANGED <<predictions, results, matches, scored,
                                 saved>>
             ELSE IF features = "raise"
             THEN \* extract_features raises on a history record it cannot read
                  /\ pc' = match_exception_target
                  /\ failed' = MarkFailed(cur)
                  /\ event' = Ev("match_exception", cur)
                  /\ UNCHANGED <<predictions, results, matches, scored,
                                 saved>>
             ELSE IF over25_model = "None"
             THEN \* predict_over25, lines 54-55: ValueError("Model not trained!")
                  /\ pc' = match_exception_target
                  /\ failed' = MarkFailed(cur)
                  /\ event' = Ev("model_missing", cur)
                  /\ UNCHANGED <<predictions, results, matches, scored,
                                 saved>>
             ELSE IF below_threshold(over25_result.probability)
             THEN \* lines 204-205: return None
                  /\ pc' = "RateLimit"
                  /\ scored' = scored \cup {cur}
                  /\ event' = Ev("filtered", cur)
                  /\ UNCHANGED <<predictions, results, matches, saved,
                                 failed>>
             ELSE \* lines 114-118
                  /\ save_prediction(PredictionOf(cur, ci, o, over25_result))
                  /\ pc' = "RateLimit"
                  /\ scored' = scored \cup {cur}
                  /\ saved' = saved \cup {cur}
                  /\ event' = Ev("saved", cur)
                  /\ UNCHANGED <<matches, failed>>
    /\ cur' = NoFixture
    /\ home_history' = "unset"
    /\ UNCHANGED <<now, config, over25_model, running, now_utc, ci, signalled>>
    /\ UNCHANGED aloneVars

\* line 122: the rate-limit delay has elapsed
RateLimit ==
    /\ pc = "RateLimit"
    /\ pc' = "NextMatch"
    /\ event' = Ev("rate_limit_elapsed", NoFixture)
    /\ UNCHANGED <<predictions, results, now, config, over25_model, running,
                   now_utc, ci, matches, cur, home_history, scored,
                   saved, failed, signalled>>
    /\ UNCHANGED aloneVars

\* lines 66-68: the inter-cycle sleep ends, or raises
Sleeping ==
    /\ pc = "Sleeping"
    /\ \E outcome \in {"elapsed", "raise"} :
          IF outcome = "raise"
          THEN catch_loop_exception
          ELSE /\ pc' = "LoopTest"
               /\ event' = Ev("sleep_elapsed", NoFixture)
               /\ UNCHANGED <<predictions, results, now, config, over25_model,
                              running, now_utc, ci, matches, cur, home_history,
                              scored, saved, failed, signalled, aloneVars>>

\* line 75: the backoff of 60 s has elapsed
ErrorBackoff ==
    /\ pc = "ErrorBackoff"
    /\ pc' = "LoopTest"
    /\ event' = Ev("backoff_elapsed", NoFixture)
    /\ UNCHANGED <<predictions, results, now, config, over25_model, running,
                   now_utc, ci, matches, cur, home_history, scored,
                   saved, failed, signalled>>
    /\ UNCHANGED aloneVars

\* A shutdown signal (SIGINT).  While the coroutine is suspended in an await
\* the task is cancelled there: CancelledError is no Exception, so neither
\* line 124 nor lines 70-75 catch it and the coroutine is left at once.
\* While the coroutine runs its own code KeyboardInterrupt is raised in it
\* and lines 70-72 clear self.running.
Shutdown ==
    /\ ~signalled
    /\ signalled' = TRUE
    /\ event' = Ev("shutdown", cur)
    /\ \/ /\ pc \in AwaitStates
          /\ pc' = "Terminated"
          /\ running' = running
          \* the cancelled frames are gone; cur keeps the fixture left unfinished
          /\ now_utc' = 0
          /\ ci' = 1
          /\ matches' = <<>>
          /\ home_history' = "unset"
       \/ /\ pc = "NextMatch"
          /\ pc' = "LoopTest"
          /\ running' = FALSE
          /\ UNCHANGED <<now_utc, ci, matches, home_history>>
    /\ UNCHANGED <<predictions, results, now, config, over25_model,
                   cur, scored, saved, failed>>
    /\ UNCHANGED aloneVars

\* --------------------------------------------------------- the environment
\* time passes
Tick ==
    /\ now < MaxTime
    /\ now' = now + 1
    /\ UNCHANGED <<event, predictions, results, config, over25_model, running, pc,
                   now_utc, ci, matches, cur, home_history, scored,
                   saved, failed, signalled>>
    /\ UNCHANGED aloneVars

\* outcome recording: a caller of Database.save_result; traced says whether
\* the call is written to the history variable event
RecordOutcomeUpTo(limit, scores, traced) ==
    /\ BagCardinality(results) < limit
    /\ \E f \in Fixtures, g \in scores :
          /\ save_result(f, g[1], g[2])
          /\ event' = IF traced THEN Ev("save_result", <<f, g[1], g[2]>>)
                       ELSE event
    /\ UNCHANGED <<now, config, over25_model, running, pc, now_utc, ci,
                   matches, cur, home_history, scored, saved, failed,
                   signalled>>
    /\ UNCHANGED aloneVars

\* outcome recording while the results table holds fewer than MaxResults rows
RecordOutcome(scores, traced) == RecordOutcomeUpTo(MaxResults, scores, traced)

\* a caller of Database.save_prediction with any prediction
InsertPrediction ==
    /\ \E f \in Fixtures, o \in ScoreOutcomes :
          LET prediction == PredictionOf(f, CompOf(f), o,
                                         predict_over25(o.probability))
          IN /\ save_prediction(prediction)
             /\ saved' = saved \cup {f}
             /\ event' = Ev(IF f \in saved THEN "save_prediction_again"
                            ELSE "save_prediction", prediction)
    /\ UNCHANGED <<now, config, over25_model, running, pc, now_utc, ci,
                   matches, cur, home_history, scored, failed, signalled>>
    /\ UNCHANGED aloneVars

Init ==
    /\ predictions = EmptyBag
    /\ results = EmptyBag
    /\ now = 0
    /\ config \in [over25_min_probability : MinProbabilities]
    /\ over25_model \in {load(present) : present \in BOOLEAN}
    /\ running = TRUE
    /\ pc = "Idle"
    /\ now_utc = 0
    /\ ci = 1
    /\ matches = <<>>
    /\ cur = NoFixture
    /\ home_history = "unset"
    /\ scored = {}
    /\ saved = {}
    /\ failed = [f \in Fixtures |-> "no"]
    /\ signalled = FALSE
    /\ event = Ev("init", NoFixture)
    /\ histories = <<<< >>, << >>>>
    /\ features_dict = NoFeatures
    /\ over25_out = NoResult
    /\ workers = [w \in Workers |-> IdleWorker]
    /\ healed = FALSE

\* the scheduler with outcome recording
Next ==
    \/ MonitorStart
    \/ LoopTest
    \/ FetchMatches
    \/ NextMatch
    \/ NextLeague
    \/ FetchHome
    \/ FetchAway
    \/ RateLimit
    \/ Sleeping
    \/ ErrorBackoff
    \/ Shutdown
    \/ Tick
    \/ RecordOutcome(MonitoredScores, FALSE)

Spec == Init /\ [][Next]_vars

\* a step of the monitor coroutine
SchedulerStep ==
    \/ MonitorStart
    \/ LoopTest
    \/ FetchMatches
    \/ NextMatch
    \/ NextLeague
    \/ FetchHome
    \/ FetchAway
    \/ RateLimit
    \/ Sleeping
    \/ ErrorBackoff

\* the fixtures whose kickoff stays in the future for as long as the clock runs
FutureFixtures == {f \in Fixtures : Kickoff(f) > MaxTime}

\* the upstream feed stops failing, between two cycles, after the processing
\* of a fixture with a future kickoff has failed
Heal ==
    /\ ~healed
    /\ pc \notin ScanningStates
    /\ \E f \in FutureFixtures : failed[f] = "fresh"
    /\ healed' = TRUE
    /\ UNCHANGED <<predictions, results, now, config, over25_model, running,
                   pc, now_utc, ci, matches, cur, home_history, scored, saved,
                   failed, signalled, event, histories, features_dict,
                   over25_out, workers>>

\* what a step of the scheduler meets once the feed has healed: the fixture
\* lists arrive, and a fixture with a future kickoff is listed as scheduled
\* and well-formed, its histories arrive non-empty, its features are
\* extracted and its score meets the minimum
Healthy ==
    healed => /\ ~(pc = "FetchMatches"
                    /\ event'.kind \in {"matches_failed", "loop_exception"})
              /\ ~(/\ pc \in {"NextMatch", "AwaitHome", "AwaitAway"}
                    /\ event'.kind \in {"skip_status", "match_exception",
                                         "history_failed", "no_history",
                                         "filtered"}
                    /\ event'.arg \in FutureFixtures)
              /\ ~(pc = "AwaitHome" /\ cur \in FutureFixtures
                    /\ home_history' = "empty")

\* the scheduler with a feed that fails and then heals, no shutdown signal
RetryNext ==
    \/ SchedulerStep /\ Healthy
    \/ Heal
    \/ Tick

\* a monitor with a loaded model
RetryInit == Init /\ over25_model = "Model"

\* the event loop runs the coroutine whenever it can run; whether and when
\* the feed heals is left open
RetrySpec ==
    /\ RetryInit
    /\ [][RetryNext]_vars
    /\ WF_vars(SchedulerStep /\ Healthy)

\* the ledger alone, under any sequence of its operations
LedgerNext ==
    \/ InsertPrediction
    \/ RecordOutcome(GoalPairs, TRUE)
    \/ Tick

\* the ledger of a monitor that is constructed and never started
LedgerInit ==
    /\ Init
    /\ over25_model = "Model"
    /\ config.over25_min_probability = 65

LedgerSpec == LedgerInit /\ [][LedgerNext]_vars

\* one more match record arrives in one of the two histories
AppendHistory ==
    /\ features_dict = NoFeatures
    /\ \E side \in {1, 2}, m \in HistoryMatches :
          /\ Len(histories[side]) < MaxHistory
          /\ histories' = [histories EXCEPT ![side] = Append(@, m)]
    /\ UNCHANGED <<predictions, results, now, config, over25_model, running,
                   pc, now_utc, ci, matches, cur, home_history, scored, saved,
                   failed, signalled, event, features_dict, over25_out,
                   workers>>
    /\ UNCHANGED healed

\* _predict_match, lines 179-184, for team 1 at home to team 2
ExtractFeatures ==
    /\ features_dict = NoFeatures
    /\ features_dict' = extract_features(1, 2, histories[1], histories[2])
    /\ UNCHANGED <<predictions, results, now, config, over25_model, running,
                   pc, now_utc, ci, matches, cur, home_history, scored, saved,
                   failed, signalled, event, histories, over25_out,
                   workers>>
    /\ UNCHANGED healed

\* the feature extraction alone, on any two histories
FeatureNext ==
    \/ AppendHistory
    \/ ExtractFeatures

FeatureSpec == LedgerInit /\ [][FeatureNext]_vars

\* _predict_match, line 191, on a feature vector the model gives proba for
PredictOver25 ==
    /\ over25_model # "None"
    /\ \E proba \in Probabilities : over25_out' = predict_over25(proba)
    /\ UNCHANGED <<predictions, results, now, config, over25_model, running,
                   pc, now_utc, ci, matches, cur, home_history, scored, saved,
                   failed, signalled, event, histories, features_dict,
                   workers>>
    /\ UNCHANGED healed

\* the scoring engine alone, on any probability of the loaded model
ScoringNext == PredictOver25

ScoringSpec == LedgerInit /\ [][ScoringNext]_vars

\* lines 107-112 in worker w: the fixture is looked up in the ledger and,
\* when it is not there, handed to _predict_match
WorkerCheck(w) ==
    /\ workers[w].pc = "idle"
    /\ \E f \in Fixtures :
          /\ ~prediction_exists(f)
          /\ workers' = [workers EXCEPT ![w] = [pc |-> "scoring",
                                                fixture |-> f,
                                                prediction |-> NoPrediction]]
    /\ UNCHANGED <<predictions, results, now, config, over25_model, running,
                   pc, now_utc, ci, matches, cur, home_history, scored, saved,
                   failed, signalled, event, histories, features_dict,
                   over25_out>>
    /\ UNCHANGED healed

\* line 112 in worker w: _predict_match returns a prediction, or None
WorkerScore(w) ==
    /\ workers[w].pc = "scoring"
    /\ \E o \in ScoreOutcomes :
          LET r == predict_over25(o.probability)
              f == workers[w].fixture
          IN workers' = [workers EXCEPT ![w] =
                 IF below_threshold(r.probability) THEN IdleWorker
                 ELSE [pc |-> "saving", fixture |-> f,
                       prediction |-> PredictionOf(f, CompOf(f), o, r)]]
    /\ UNCHANGED <<predictions, results, now, config, over25_model, running,
                   pc, now_utc, ci, matches, cur, home_history, scored, saved,
                   failed, signalled, event, histories, features_dict,
                   over25_out>>
    /\ UNCHANGED healed

\* lines 114-115 in worker w: save_prediction commits its one statement, or
\* sqlite3 raises "database is locked" and nothing is written (lines 124-126)
WorkerSave(w) ==
    /\ workers[w].pc = "saving"
    /\ workers' = [workers EXCEPT ![w] = IdleWorker]
    /\ \E locked \in BOOLEAN :
          IF locked
          THEN /\ event' = Ev("match_exception", workers[w].fixture)
               /\ UNCHANGED <<predictions, results, saved>>
          ELSE /\ save_prediction(workers[w].prediction)
               /\ saved' = saved \cup {workers[w].fixture}
               /\ event' = Ev(IF workers[w].fixture \in saved
                               THEN "save_prediction_again"
                               ELSE "save_prediction", workers[w].prediction)
    /\ UNCHANGED <<now, config, over25_model, running, pc, now_utc, ci,
                   matches, cur, home_history, scored, failed, signalled,
                   histories, features_dict, over25_out>>
    /\ UNCHANGED healed

\* two workers against one ledger
WorkersNext ==
    \/ \E w \in Workers : WorkerCheck(w)
    \/ \E w \in Workers : WorkerScore(w)
    \/ \E w \in Workers : WorkerSave(w)
    \/ Tick

WorkersSpec == LedgerInit /\ [][WorkersNext]_vars

\* the ledger with room for a second outcome record of one fixture
StatsNext ==
    \/ InsertPrediction
    \/ RecordOutcomeUpTo(MaxResults + 1, GoalPairs, FALSE)
    \/ Tick

StatsSpec == LedgerInit /\ [][StatsNext]_vars

\* ------------------------------------------------------------ the claims
\* the columns of a predictions row that save_prediction takes from its argument
PredictionFields == {"fixture_id", "home_team", "away_team", "league",
                     "kickoff_utc", "over25_prob", "over25_confidence",
                     "btts_prob", "expected_goals", "home_form", "away_form"}
Content(row) == [k \in PredictionFields |-> row[k]]
RowsOf(fixture_id) == {r \in BagToSet(predictions) : r.fixture_id = fixture_id}

\* C2: after any sequence of save_prediction and save_result calls the
\* predictions table holds at most one record per fixture identifier, and a
\* save_prediction for an identifier already present overwrites that record
\* (the record then carries the new prediction) and leaves the number of
\* records unchanged.
C2_OneRecordPerFixture ==
    /\ [](\A f \in Fixtures : CountRows(f) <= 1)
    /\ [][(event'.kind \in {"save_prediction", "save_prediction_again"}
           /\ now' = now
           /\ prediction_exists(event'.arg.fixture_id))
          => /\ BagCardinality(predictions') = BagCardinality(predictions)
             /\ \A r \in BagToSet(predictions') :
                    r.fixture_id = event'.arg.fixture_id
                        => Content(r) = event'.arg]_vars

\* C2 witness: a record that a second save_prediction has overwritten with a
\* different prediction, after a save_result for it
C2_Witness ==
    /\ event.kind = "save_prediction_again"
    /\ BagCardinality(results) > 0
    /\ \E r \in BagToSet(predictions) :
          /\ r.fixture_id = event.arg.fixture_id
          /\ r.predicted_at > 0
          /\ r.over25_prob = 80
    /\ BagCardinality(predictions) = 2

\* C9: prediction_exists(f) is true exactly when save_prediction has been
\* called for f, whatever other identifiers were inserted and whatever
\* save_result calls were made.
C9_ExistsIffSaved ==
    \A f \in Fixtures : prediction_exists(f) <=> f \in saved

\* C9 witness: one identifier inserted, another not, and an outcome recorded
\* for the one that was not
C9_Witness ==
    \E f \in Fixtures, g \in Fixtures :
        /\ f \in saved
        /\ g \notin saved
        /\ \E r \in BagToSet(results) : r.fixture_id = g

\* C10: save_result(f, h, a) adds exactly one outcome record for f, labelled
\* over-threshold exactly when h + a > 2 and both-teams-score exactly when
\* h > 0 and a > 0, sets the status of f's prediction to FINISHED, and leaves
\* the other fields of that prediction and the records of other fixtures as
\* they were.
C10_SaveResultEffect ==
    [][(event'.kind = "save_result" /\ now' = now /\ event' # event)
       => LET f == event'.arg[1]
              h == event'.arg[2]
              a == event'.arg[3]
          IN /\ BagCardinality(results') = BagCardinality(results) + 1
             /\ \E r \in BagToSet(results') :
                   /\ results' = results (+) SetToBag({r})
                   /\ r.fixture_id = f
                   /\ r.home_goals = h
                   /\ r.away_goals = a
                   /\ (r.over25_actual = 1) <=> (h + a > 2)
                   /\ (r.btts_actual = 1) <=> (h > 0 /\ a > 0)
                   /\ r.over25_actual \in {0, 1}
                   /\ r.btts_actual \in {0, 1}
             /\ BagCardinality(predictions') = BagCardinality(predictions)
             /\ \A r \in BagToSet(predictions) :
                   IF r.fixture_id = f
                   THEN CopiesIn([r EXCEPT !.status = "FINISHED"], predictions')
                            >= CopiesIn(r, predictions)
                   ELSE CopiesIn(r, predictions') = CopiesIn(r, predictions)
      ]_vars

\* C10 witness: a 1-1 draw recorded for a fixture with a prediction, next to
\* the pending prediction of another fixture
C10_Witness ==
    /\ event.kind = "save_result"
    /\ \E r \in BagToSet(results) :
          /\ r.home_goals = 1
          /\ r.away_goals = 1
          /\ r.over25_actual = 0
          /\ r.btts_actual = 1
          /\ \E q \in RowsOf(r.fixture_id) : q.status = "FINISHED"
          /\ \E q \in BagToSet(predictions) :
                q.fixture_id # r.fixture_id /\ q.status = "PENDING"

\* a step in which the model scores the fixture in flight
ScoringStep == pc = "AwaitAway" /\ event'.kind \in {"filtered", "saved"}
\* a step in which the scheduler persists the fixture in flight
PersistingStep == pc = "AwaitAway" /\ event'.kind = "saved"
\* a step in which the processing of some fixture fails
FailureStep == \E f \in Fixtures : failed[f] = "no" /\ failed'[f] # "no"

C3_FailureIsolated ==
    /\ [](\A f \in Fixtures : failed[f] # "no" => ~prediction_exists(f))
    /\ [][FailureStep
          => /\ pc' \in {"NextMatch", "AwaitAway", "RateLimit"}
             /\ ci' = ci
             /\ matches' = IF pc = "NextMatch" THEN Tail(matches) ELSE matches
         ]_vars

\* C3 as amended: a failure while one fixture is processed writes nothing to
\* the ledger and leaves the scan at the fixture listed after it, and after
\* the cycle prediction_exists is false for the failed fixture unless a
\* prediction for it had been persisted before the failure.
C3_FailureIsolatedUnlessPersistedBefore ==
    /\ [](\A f \in Fixtures : failed[f] = "fresh" => ~prediction_exists(f))
    /\ [][FailureStep
          => /\ pc' \in {"NextMatch", "AwaitAway", "RateLimit"}
             /\ ci' = ci
             /\ matches' = IF pc = "NextMatch" THEN Tail(matches) ELSE matches
             /\ predictions' = predictions
         ]_vars

\* C3 witness: after the first fixture of a competition failed, the fixture
\* listed after it is in the ledger and the scan has fetched the list of the
\* next competition
C3_Witness ==
    \E f \in Fixtures, g \in Fixtures :
        /\ failed[f] = "fresh"
        /\ g > f /\ CompOf(g) = CompOf(f) /\ g \in saved
        /\ ci > CompOf(f)
        /\ event.kind = "matches_fetched"

\* C4: a failure raised by a scan cycle or by the inter-cycle sleep takes the
\* scheduler to error backoff, the only ways out of error backoff are a new
\* scan cycle and a shutdown signal, and the loop is terminated only after a
\* shutdown signal.
C4_LoopSurvivesFailures ==
    /\ [](pc = "Terminated" => signalled)
    /\ [][(event'.kind = "loop_exception" /\ pc \in {"FetchMatches", "Sleeping"})
          => pc' = "ErrorBackoff"]_vars
    /\ [][(pc = "ErrorBackoff" /\ pc' # pc)
          => \/ pc' = "LoopTest" /\ running'
             \/ pc' = "Terminated" /\ signalled']_vars
    /\ [][(pc = "LoopTest" /\ running /\ pc' # pc)
          => pc' = "FetchMatches" /\ event'.kind = "scan_start"]_vars

\* C4 witness: the error backoff after a failure has elapsed with no shutdown
\* signal, and the loop is about to start a new scan cycle
C4_Witness ==
    /\ pc = "LoopTest"
    /\ event.kind = "backoff_elapsed"
    /\ running
    /\ ~signalled

\* C5 as stated: a shutdown signal that arrives while a fixture is being
\* processed lets the scheduler finish that fixture before it exits, and no
\* scan cycle starts after the signal.
C5_InFlightFixtureFinished ==
    /\ pc = "Terminated" => cur = NoFixture
    /\ signalled => event.kind # "scan_start"

\* C6 as stated: with the model artifact absent at construction the scheduler
\* never enters the Scanning state, fetches nothing and persists nothing.
C6_RefusesToRunWithoutModel ==
    over25_model = "None"
        => /\ pc \notin ScanningStates
           /\ event.kind \notin {"matches_fetched", "history_fetched"}
           /\ saved = {}

\* C7: every prediction the scheduler has persisted has an over25_prob of at
\* least the configured over25_min_probability.
C7_PersistedMeetsMinimum ==
    \A r \in BagToSet(predictions) :
        r.over25_prob >= config.over25_min_probability

\* C7 witness: one fixture persisted with exactly the minimum, another scored
\* below it and not in the ledger
C7_Witness ==
    /\ \E r \in BagToSet(predictions) :
          r.over25_prob = config.over25_min_probability
    /\ \E f \in scored : ~prediction_exists(f)
    /\ event.kind = "filtered"

\* C8: once a prediction record exists, every later state holds a record with
\* the same fixture identifier, team names, league, kickoff, probabilities,
\* confidence label, expected goals and form summaries.
C8_RecordContentFrozen ==
    [][\/ predictions' = predictions
       \/ \A r \in BagToSet(predictions) :
             \E q \in BagToSet(predictions') : Content(q) = Content(r)]_vars

\* C8 witness: the scheduler has met again, and skipped, a fixture whose
\* record an outcome recording has set to FINISHED
C8_Witness ==
    /\ event.kind = "skip_existing"
    /\ \E r \in RowsOf(event.arg) : r.status = "FINISHED"

\* the predictions written within the window that have a recorded outcome
Matched(days) == {x[1] : x \in JoinRows(days)}
SameQuotient(a, b) == a[1] * b[2] = b[1] * a[2]

\* C11 as stated: for any ledger content and any window, get_accuracy_stats
\* counts each prediction made within the window that has a recorded outcome
\* once: total is the number of these predictions, accuracy_over25 and
\* accuracy_btts are the fractions of them whose side of the 65 and of the 60
\* boundary matches a recorded label, and all three values are zero when
\* there is none.
C11_EachPredictionCountedOnce ==
    \A days \in Windows :
        LET stats == get_accuracy_stats(days)
            M == Matched(days)
            over == {p \in M : \E x \in JoinRows(days) :
                                  x[1] = p /\ correct_over25(x)}
            btts == {p \in M : \E x \in JoinRows(days) :
                                  x[1] = p /\ correct_btts(x)}
        IN /\ stats.total = Cardinality(M)
           /\ IF M = {}
              THEN stats.accuracy_over25[1] = 0 /\ stats.accuracy_btts[1] = 0
              ELSE /\ SameQuotient(stats.accuracy_over25,
                                   <<Cardinality(over), Cardinality(M)>>)
                   /\ SameQuotient(stats.accuracy_btts,
                                   <<Cardinality(btts), Cardinality(M)>>)

\* the history without the matches that miss a score
MissingScore(m) == get(m.hg) = Null \/ get(m.ag) = Null
Scored(ms) == SelectSeq(ms, LAMBDA m : ~MissingScore(m))

\* C12 as stated: extract_features returns a feature vector for any two
\* histories, and the vector is the one it returns for the two histories
\* without the matches that miss a home or away score.
C12_ExtractFeaturesTotal ==
    features_dict # NoFeatures
        => /\ features_dict.status = "ok"
           /\ features_dict = extract_features(1, 2, Scored(histories[1]),
                                          Scored(histories[2]))

\* C13: for every probability p the loaded model gives, predict_over25 labels
\* it High exactly when p >= 75, Medium exactly when 65 <= p < 75 and Low
\* otherwise, and returns lower_bound = max(0, p - 8) and upper_bound =
\* min(100, p + 8) with 0 <= lower_bound <= p <= upper_bound <= 100.
C13_BandsAndBounds ==
    over25_out # NoResult
        => LET p == over25_out.probability
               lo == over25_out.lower_bound
               up == over25_out.upper_bound
           IN /\ (over25_out.confidence = "High") <=> (p >= 75)
              /\ (over25_out.confidence = "Medium") <=> (65 <= p /\ p < 75)
              /\ (over25_out.confidence = "Low") <=> (p < 65)
              /\ lo = (IF p - 8 < 0 THEN 0 ELSE p - 8)
              /\ up = (IF p + 8 > 100 THEN 100 ELSE p + 8)
              /\ 0 <= lo /\ lo <= p /\ p <= up /\ up <= 100

\* C13 witness: the probability on the lower edge of the High band, with
\* both bounds inside the unit interval
C13_Witness ==
    /\ over25_out.probability = 75
    /\ over25_out.confidence = "High"
    /\ over25_out.lower_bound = 67
    /\ over25_out.upper_bound = 83

\* C14 as stated: a fixture the scheduler takes up for scoring has a
\* scheduled status and a kickoff strictly later than the moment at which it
\* is taken up, however late in the scan cycle that is.
C14_OnlyFutureScheduledFixtures ==
    [][(pc = "NextMatch" /\ event'.kind = "process")
       => /\ event'.arg.status \in {"SCHEDULED", "TIMED"}
          /\ Kickoff(event'.arg.fixture) > now]_vars

\* C15 as stated: within a scan cycle, once the histories of a fixture have
\* been fetched the scheduler awaits the rate-limit delay before it turns to
\* another fixture, whether the fixture was persisted, filtered out or
\* failed with an error.
C15_DelayBetweenFixtures ==
    [][(pc = "AwaitAway" /\ pc' # pc) => pc' \in {"RateLimit", "Terminated"}]_vars

\* C16: a scan cycle starts only when the loop has just been started, the
\* inter-cycle sleep has elapsed or the error backoff has elapsed; a scan
\* that completes leaves the scheduler in the Sleeping state and a failed one
\* in error backoff, and the Sleeping state is left only when the sleep has
\* elapsed, for error backoff, or on a shutdown signal.
C16_NoBackToBackCycles ==
    /\ [][(pc = "LoopTest" /\ event'.kind = "scan_start")
          => event.kind \in {"started", "sleep_elapsed", "backoff_elapsed"}]_vars
    /\ [][(pc \in ScanningStates /\ pc' \notin ScanningStates)
          => \/ pc' = "Sleeping" /\ event'.kind = "scan_complete"
             \/ pc' = "ErrorBackoff" /\ event'.kind = "loop_exception"
             \/ signalled']_vars
    /\ [][(pc = "Sleeping" /\ pc' # pc)
          => \/ pc' = "LoopTest" /\ event'.kind = "sleep_elapsed"
             \/ pc' = "ErrorBackoff"
             \/ pc' = "Terminated" /\ signalled']_vars

\* C16 witness: the sleep after a completed scan that persisted a prediction
\* has elapsed and the loop is about to start the next cycle
C16_Witness ==
    /\ pc = "LoopTest"
    /\ event.kind = "sleep_elapsed"
    /\ running
    /\ saved # {}

\* the kinds of step in which something fails during a scan
FailureKinds == {"matches_failed", "history_failed", "match_exception",
                 "model_missing", "loop_exception"}

\* C17 as stated: every step of a scan in which a fixture-list fetch, a
\* team-history fetch, the processing of a fixture or the cycle fails writes
\* at least one log entry.
C17_EveryFailureLogged ==
    event.kind \in FailureKinds => event.log # "none"

\* C18: with two workers against one ledger, under every interleaving of
\* their prediction_exists checks, scoring steps and save_prediction calls
\* the ledger holds at most one record per fixture identifier, and every
\* save_prediction leaves for its identifier the record it wrote and leaves
\* the records of the other identifiers as they were, so that the record of
\* an identifier is the one written by the last save_prediction for it.
C18_OneRecordLastWriterWins ==
    /\ [](\A f \in Fixtures : CountRows(f) <= 1)
    /\ [][\A w \in Workers :
            (workers[w].pc = "saving" /\ workers'[w].pc = "idle"
             /\ predictions' # predictions)
            => LET p == workers[w].prediction
               IN /\ \E r \in BagToSet(predictions') :
                        r.fixture_id = p.fixture_id
                  /\ \A r \in BagToSet(predictions') :
                        r.fixture_id = p.fixture_id => Content(r) = p
                  /\ \A r \in BagToSet(predictions) :
                        r.fixture_id # p.fixture_id
                            => CopiesIn(r, predictions')
                                   = CopiesIn(r, predictions)]_vars

\* C18 witness: both workers found the fixture missing and scored it, and
\* the second save has just replaced the record the first one wrote
C18_Witness ==
    /\ event.kind = "save_prediction_again"
    /\ \A w \in Workers : workers[w].pc = "idle"
    /\ \E r \in RowsOf(event.arg.fixture_id) :
          /\ Content(r) = event.arg
          /\ r.over25_prob = 80
          /\ r.predicted_at > 0

\* C19: with no shutdown signal and a loaded model, a fixture with a future
\* kickoff whose processing failed in the last cycle is eventually persisted,
\* once the feed has healed: from then on the fixture lists arrive, the
\* fixture is listed as scheduled, its histories arrive, and its score meets
\* the minimum; the scheduler is weakly fair.
C19_FailedFixtureRetried ==
    \A f \in FutureFixtures :
        (healed /\ failed[f] = "fresh") ~> prediction_exists(f)

\* C19 witness: after a failure and the healing of the feed, a later cycle
\* has just persisted a fixture with a future kickoff
C19_Witness ==
    /\ healed
    /\ event.kind = "saved"
    /\ event.arg \in FutureFixtures
    /\ prediction_exists(event.arg)

\* C20: a prediction's status never moves back: once a prediction of a
\* fixture carries FINISHED (save_result has been called for the fixture while
\* it had a prediction), every prediction of that fixture carries FINISHED
\* after any further call of save_prediction or save_result.
C20_StatusNeverMovesBack ==
    [][\A f \in Fixtures :
          (\E r \in BagToSet(predictions) :
                r.fixture_id = f /\ r.status = "FINISHED")
          => \A q \in BagToSet(predictions') :
                q.fixture_id = f => q.status = "FINISHED"]_vars

\* C21: every outcome record of the results table refers to a fixture
\* identifier that has a record in the predictions table; save_result for an
\* identifier with no prediction adds no outcome record.
C21_ResultsReferToPredictions ==
    \A r \in BagToSet(results) : prediction_exists(r.fixture_id)

====
